---- MODULE Spec2Model ----
(***************************************************************************)
(* Model of the GitHub-webhook -> Telegram relay:                          *)
(*   webhook::handle_webhook / verify_signature      (src/src/webhook)     *)
(*   GitHubEvent::parse / parse_payload / event_key / format_message,      *)
(*   parse_request_body, parse_nested                (src/src/github)      *)
(*   TelegramClient::send_event_notification, matches_repo, matches_event  *)
(*                                                   (src/src/telegram)    *)
(*                                                                         *)
(* Strings are sequences of atoms.  An atom is either a special character  *)
(* the code looks at ("*", ".", "/") or an indivisible run of ordinary     *)
(* characters ("acme", "pull_request"); concatenation, equality, prefix    *)
(* and trimming are the sequence operations.  Signature strings are        *)
(* sequences of single characters.  Option<T> is a sequence of length 0    *)
(* (None) or 1 (Some).                                                     *)
(***************************************************************************)
EXTENDS Integers, Sequences, FiniteSets, TLC

VARIABLES
    settings,   \* AppState.settings: [webhook_secret, routing]
    pc,         \* position of handle_webhook: idle, auth, parse, route, done
    request,    \* the request being handled: [sig, kind, body]
    response,   \* Option<StatusCode> answered to the caller
    event,      \* Option<GitHubEvent> produced by GitHubEvent::parse
    message,    \* Option<String> produced by format_message
    idx,        \* position of the `for route in routes` loop
    attempts,   \* send_message calls of this request: <<[chat_id, text, ok]>>
    calls,      \* per-request call counters: [parse, format]
    log,        \* tracing lines of this request, in order
    probe       \* inputs and result of a pure function under test

vars == <<settings, pc, request, response, event, message, idx, attempts, calls, log, probe>>

None == <<>>
Some(x) == <<x>>

-----------------------------------------------------------------------------
(* Bounds of the model *)

\* longest repository pattern / repository name drawn for matches_repo
MaxPatLen == 3
\* longest event kind and action drawn for matches_event
MaxKindLen == 2
\* bytes of a digest (SHA-256 gives 32; the comparison is length-agnostic)
DigestLen == 1
\* rules in the routing table
MaxRoutes == 2

-----------------------------------------------------------------------------
(* String helpers (std::str) *)

RECURSIVE SeqsUpTo(_, _)
\* all sequences over S of length 0..n
SeqsUpTo(S, n) ==
    IF n = 0 THEN {<<>>}
    ELSE LET shorter == SeqsUpTo(S, n - 1)
         IN  shorter \cup {Append(s, a) : s \in {t \in shorter : Len(t) = n - 1}, a \in S}

\* str::contains(char)
Contains(s, c) == \E i \in 1..Len(s) : s[i] = c

\* str::starts_with(prefix)
StartsWith(s, prefix) ==
    /\ Len(prefix) <= Len(s)
    /\ SubSeq(s, 1, Len(prefix)) = prefix

RECURSIVE TrimEndMatches(_, _)
\* str::trim_end_matches(char): removes every trailing occurrence
TrimEndMatches(s, c) ==
    IF Len(s) > 0 /\ s[Len(s)] = c
        THEN TrimEndMatches(SubSeq(s, 1, Len(s) - 1), c)
        ELSE s

-----------------------------------------------------------------------------
(* telegram::matches_repo *)

matches_repo(pattern, repo_name) ==
    IF pattern = <<"*">> THEN TRUE
    ELSE IF Contains(pattern, "*")
        THEN StartsWith(repo_name, TrimEndMatches(pattern, "*"))
        ELSE repo_name = pattern

-----------------------------------------------------------------------------
(* github::GitHubEvent::event_key and telegram::matches_event *)

event_key(event_type, action) ==
    IF action = None THEN event_type
    ELSE event_type \o <<".">> \o action[1]

\* faulty variant: the bare event type is not compared
matches_event_key_only(subscribed, key, event_type) ==
    \E i \in 1..Len(subscribed) :
        subscribed[i] = <<"*">> \/ subscribed[i] = key

matches_event(subscribed, key, event_type) ==
    \E i \in 1..Len(subscribed) :
        \/ subscribed[i] = <<"*">>
        \/ subscribed[i] = key
        \/ subscribed[i] = event_type

-----------------------------------------------------------------------------
(* hex::decode, HMAC-SHA256 and webhook::verify_signature *)

\* value of one hexadecimal digit, -1 for any other character (hex::decode
\* accepts both cases)
HexVal(c) ==
    CASE c = "0" -> 0  [] c = "1" -> 1  [] c = "2" -> 2  [] c = "3" -> 3
      [] c = "4" -> 4  [] c = "5" -> 5  [] c = "6" -> 6  [] c = "7" -> 7
      [] c = "8" -> 8  [] c = "9" -> 9
      [] c = "a" -> 10 [] c = "b" -> 11 [] c = "c" -> 12
      [] c = "d" -> 13 [] c = "e" -> 14 [] c = "f" -> 15
      [] c = "A" -> 10 [] c = "B" -> 11 [] c = "C" -> 12
      [] c = "D" -> 13 [] c = "E" -> 14 [] c = "F" -> 15
      [] OTHER -> -1

\* hex::decode(signature): Err on odd length or on a non-hex character
hex_decode(s) ==
    IF Len(s) % 2 # 0 THEN None
    ELSE IF \E i \in 1..Len(s) : HexVal(s[i]) < 0 THEN None
    ELSE Some([i \in 1..(Len(s) \div 2) |-> 16 * HexVal(s[2 * i - 1]) + HexVal(s[2 * i])])

\* the byte values a digest is drawn from: 0x00, 0x0a, 0xa0, 0xaa
DigestBytes == <<0, 10, 160, 170>>

\* HmacSha256::new_from_slice(secret).update(body).finalize().into_bytes():
\* a fixed function of (secret, body) giving DigestLen bytes.  secret and
\* body are the identities of the two byte strings.
Hmac(secret, body) ==
    [i \in 1..DigestLen |-> DigestBytes[((3 * secret + 5 * body + 7 * i) % 4) + 1]]

\* faulty variant: only the bytes the candidate supplies are compared
verify_signature_prefix(secret, body, signature) ==
    LET expected_sig == hex_decode(signature)
        actual_sig == Hmac(secret, body)
    IN  /\ expected_sig # None
        /\ Len(expected_sig[1]) <= Len(actual_sig)
        /\ expected_sig[1] = SubSeq(actual_sig, 1, Len(expected_sig[1]))

verify_signature(secret, body, signature) ==
    LET expected_sig == hex_decode(signature)
    IN  IF expected_sig = None THEN FALSE
        ELSE expected_sig[1] = Hmac(secret, body)

\* lower- and upper-case hexadecimal encodings of a byte string
LowerDigits == <<"0", "1", "2", "3", "4", "5", "6", "7", "8", "9", "a", "b", "c", "d", "e", "f">>
UpperDigits == <<"0", "1", "2", "3", "4", "5", "6", "7", "8", "9", "A", "B", "C", "D", "E", "F">>
HexEncode(bytes, digits) ==
    [i \in 1..(2 * Len(bytes)) |->
        IF i % 2 = 1 THEN digits[(bytes[(i + 1) \div 2] \div 16) + 1]
                     ELSE digits[(bytes[i \div 2] % 16) + 1]]

-----------------------------------------------------------------------------
(* serde_json::Value.  An object is the sequence of its members           *)
(* <<key, value>>; keys are Rust identifiers and plain TLA+ strings.      *)

JNull == [t |-> "null", v |-> <<>>]
JBool(b) == [t |-> "bool", v |-> b]
JNum(n) == [t |-> "num", v |-> n]
JStr(s) == [t |-> "str", v |-> s]
JArr(items) == [t |-> "arr", v |-> items]
JObj(members) == [t |-> "obj", v |-> members]

\* Value::get(key): the member of an object, None for anything else.  A
\* repeated key keeps its last value (serde_json's map insert overwrites).
Get(value, key) ==
    IF value.t # "obj" THEN None
    ELSE LET hits == {i \in 1..Len(value.v) : value.v[i][1] = key}
         IN  IF hits = {} THEN None
             ELSE Some(value.v[CHOOSE i \in hits : \A j \in hits : j <= i][2])

\* Value::as_str()
as_str(value) == IF value.t = "str" THEN Some(value.v) ELSE None

\* The fields of the #[derive(Deserialize)] structs: <<name, type, optional>>
StructFields(name) ==
    CASE name = "Repository" ->
            << <<"full_name", "String", FALSE>>, <<"html_url", "String", FALSE>> >>
      [] name = "User" ->
            << <<"login", "String", FALSE>>, <<"html_url", "String", FALSE>> >>
      [] name = "PullRequestPayload" ->
            << <<"number", "u64", FALSE>>, <<"title", "String", FALSE>>,
               <<"html_url", "String", FALSE>>, <<"state", "String", FALSE>>,
               <<"merged", "bool", TRUE>>, <<"base", "BaseRef", FALSE>> >>
      [] name = "BaseRef" ->
            << <<"ref", "String", FALSE>> >>
      [] name = "IssuePayload" ->
            << <<"number", "u64", FALSE>>, <<"title", "String", FALSE>>,
               <<"html_url", "String", FALSE>>, <<"state", "String", FALSE>> >>
      [] name = "PushPayload" ->
            << <<"ref", "String", FALSE>>, <<"compare", "String", FALSE>>,
               <<"commits", "Vec<Commit>", FALSE>> >>
      [] name = "Commit" ->
            << <<"id", "String", FALSE>>, <<"message", "String", FALSE>>,
               <<"url", "String", FALSE>>, <<"author", "CommitAuthor", FALSE>> >>
      [] name = "CommitAuthor" ->
            << <<"name", "String", FALSE>> >>
      [] name = "WorkflowRunPayload" ->
            << <<"id", "u64", FALSE>>, <<"name", "String", FALSE>>,
               <<"status", "String", FALSE>>, <<"conclusion", "String", TRUE>>,
               <<"html_url", "String", FALSE>>, <<"head_branch", "String", FALSE>> >>
      [] name = "ReleasePayload" ->
            << <<"tag_name", "String", FALSE>>, <<"name", "String", TRUE>>,
               <<"html_url", "String", FALSE>>, <<"draft", "bool", FALSE>>,
               <<"prerelease", "bool", FALSE>> >>

RECURSIVE Deserializes(_, _)
\* whether serde_json::from_value::<ty>(value) is Ok.  Unknown members are
\* ignored; an Option field may be missing or null; every other field must
\* be present with its type.  (The values drawn never give an array where a
\* struct is expected.)
Deserializes(value, ty) ==
    CASE ty = "String" -> value.t = "str"
      [] ty = "u64" -> value.t = "num" /\ value.v >= 0
      [] ty = "bool" -> value.t = "bool"
      [] ty = "Vec<Commit>" ->
            /\ value.t = "arr"
            /\ \A i \in 1..Len(value.v) : Deserializes(value.v[i], "Commit")
      [] OTHER ->
            /\ value.t = "obj"
            /\ \A k \in 1..Len(StructFields(ty)) :
                 LET f == StructFields(ty)[k]
                     m == Get(value, f[1])
                 IN  IF m = None THEN f[3]
                     ELSE (f[3] /\ m[1].t = "null") \/ Deserializes(m[1], f[2])

\* a String field of a value that deserialized
Field(value, key) == Get(value, key)[1].v

-----------------------------------------------------------------------------
(* github::parse_request_body *)

\* A request body is identified by its bytes; BodyView gives what the two
\* decoders make of them:
\*   json: Option<Value>, the result of serde_json::from_slice(body)
\*   form: the pairs serde_urlencoded yields, each value with the result of
\*         serde_json::from_str on it (None: not a JSON document)
\* serde_urlencoded::from_bytes into HashMap<String, String> accepts every
\* byte string, so line 295 never fails.

\* faulty variant: the first of several `payload` fields is taken
FormGetFirst(pairs, key) ==
    LET hits == {i \in 1..Len(pairs) : pairs[i][1] = key}
    IN  IF hits = {} THEN None
        ELSE Some(pairs[CHOOSE i \in hits : \A j \in hits : i <= j][2])

\* HashMap::<String, String>::get after collecting the pairs: a repeated
\* key keeps its last value
FormGet(pairs, key) ==
    LET hits == {i \in 1..Len(pairs) : pairs[i][1] = key}
    IN  IF hits = {} THEN None
        ELSE Some(pairs[CHOOSE i \in hits : \A j \in hits : j <= i][2])

\* Result<Value>: Some(value) for Ok, None for Err
parse_request_body(view) ==
    IF view.json # None THEN view.json
    ELSE LET payload == FormGet(view.form, "payload")
         IN  IF payload = None THEN None
             ELSE payload[1]

-----------------------------------------------------------------------------
(* github::parse_nested, GitHubEvent::parse_payload, GitHubEvent::parse *)

\* Option<T>: the source value when it deserializes as struct ty
parse_nested(value, field, ty) ==
    LET source == IF field = None THEN Some(value) ELSE Get(value, field[1])
    IN  IF source = None THEN None
        ELSE IF Deserializes(source[1], ty) THEN source ELSE None

Unknown == [variant |-> "Unknown", data |-> JNull]

\* one arm of the match in parse_payload
PayloadArm(variant, value, field, ty) ==
    LET p == parse_nested(value, field, ty)
    IN  IF p # None THEN [variant |-> variant, data |-> p[1]] ELSE Unknown

parse_payload(event_type, value) ==
    CASE event_type = <<"pull_request">> ->
            PayloadArm("PullRequest", value, Some("pull_request"), "PullRequestPayload")
      [] event_type = <<"issues">> ->
            PayloadArm("Issue", value, Some("issue"), "IssuePayload")
      [] event_type = <<"push">> ->
            PayloadArm("Push", value, None, "PushPayload")
      [] event_type = <<"workflow_run">> ->
            PayloadArm("WorkflowRun", value, Some("workflow_run"), "WorkflowRunPayload")
      [] event_type = <<"release">> ->
            PayloadArm("Release", value, Some("release"), "ReleasePayload")
      [] OTHER -> Unknown

\* value.get(key).cloned().unwrap_or_default(), from_value(..).unwrap_or_default()
\* and the two is_empty() fallbacks: a <<first, html_url>> pair
NamedOrDefault(value, key, ty, first, fallback) ==
    LET m == Get(value, key)
        src == IF m = None THEN JNull ELSE m[1]
        ok == Deserializes(src, ty)
        name == IF ok THEN Field(src, first) ELSE <<>>
        url == IF ok THEN Field(src, "html_url") ELSE <<>>
    IN  << IF name = <<>> THEN fallback ELSE name,
           IF url = <<>> THEN <<"https://github.com">> ELSE url >>

\* faulty variant: a payload that does not fit its kind fails the parse
parse_strict(event_type, view) ==
    LET body == parse_request_body(view)
    IN  IF body = None THEN None
        ELSE IF parse_payload(event_type, body[1]) = Unknown THEN None
        ELSE LET value == body[1]
                 a == Get(value, "action")
                 repo == NamedOrDefault(value, "repository", "Repository",
                                        "full_name", <<"unknown", "/", "repository">>)
                 sender == NamedOrDefault(value, "sender", "User", "login", <<"unknown">>)
             IN  Some([event_type |-> event_type,
                       action |-> IF a = None THEN None ELSE as_str(a[1]),
                       repo |-> [full_name |-> repo[1], html_url |-> repo[2]],
                       sender |-> [login |-> sender[1], html_url |-> sender[2]],
                       payload |-> parse_payload(event_type, value)])

\* GitHubEvent::parse: Some(event) for Ok, None for Err
parse(event_type, view) ==
    LET body == parse_request_body(view)
    IN  IF body = None THEN None
        ELSE LET value == body[1]
                 a == Get(value, "action")
                 repo == NamedOrDefault(value, "repository", "Repository",
                                        "full_name", <<"unknown", "/", "repository">>)
                 sender == NamedOrDefault(value, "sender", "User", "login", <<"unknown">>)
             IN  Some([event_type |-> event_type,
                       action |-> IF a = None THEN None ELSE as_str(a[1]),
                       repo |-> [full_name |-> repo[1], html_url |-> repo[2]],
                       sender |-> [login |-> sender[1], html_url |-> sender[2]],
                       payload |-> parse_payload(event_type, value)])

-----------------------------------------------------------------------------
(* github::GitHubEvent::format_message.  The message is the template's     *)
(* name, the glyph and the arguments of format!, in order.                 *)

\* Option<bool> / Option<String> member of a deserialized struct
OptField(data, key) ==
    LET m == Get(data, key)
    IN  IF m = None \/ m[1].t = "null" THEN None ELSE Some(m[1].v)

format_message(e) ==
    LET p == e.payload.data
        act == IF e.action = None THEN <<"updated">> ELSE e.action[1]
    IN  CASE e.payload.variant = "PullRequest" ->
                LET merged == IF OptField(p, "merged") = None THEN FALSE
                              ELSE OptField(p, "merged")[1]
                    emoji == CASE act = <<"opened">> -> "new"
                               [] act = <<"closed">> /\ merged -> "merged"
                               [] act = <<"closed">> /\ ~merged -> "cross"
                               [] act = <<"reopened">> -> "cycle"
                               [] act = <<"synchronize">> -> "package"
                               [] OTHER -> "memo"
                IN  <<"PullRequest", emoji, act, Field(p, "number"), Field(p, "html_url"),
                      Field(Get(p, "base")[1], "ref"), Field(p, "title"),
                      e.sender.login, e.sender.html_url>>
          [] e.payload.variant = "Issue" ->
                LET emoji == CASE act = <<"opened">> -> "bug"
                               [] act = <<"closed">> -> "check"
                               [] act = <<"reopened">> -> "cycle"
                               [] OTHER -> "clipboard"
                IN  <<"Issue", emoji, act, Field(p, "number"), Field(p, "html_url"),
                      Field(p, "title"), e.sender.login, e.sender.html_url>>
          [] e.payload.variant = "Push" ->
                LET ref == Field(p, "ref")
                    \* trim_start_matches("refs/heads/")
                    RECURSIVE TrimStart(_)
                    TrimStart(r) == IF Len(r) > 0 /\ r[1] = "refs/heads/"
                                    THEN TrimStart(Tail(r)) ELSE r
                IN  <<"Push", "up", TrimStart(ref), Field(p, "compare"),
                      Len(Field(p, "commits")), e.sender.login, e.sender.html_url>>
          [] e.payload.variant = "WorkflowRun" ->
                LET conclusion == OptField(p, "conclusion")
                    emoji == CASE conclusion = Some(<<"success">>) -> "check"
                               [] conclusion = Some(<<"failure">>) -> "cross"
                               [] conclusion = Some(<<"cancelled">>) -> "forbidden"
                               [] OTHER -> "hourglass"
                IN  <<"WorkflowRun", emoji, Field(p, "name"), Field(p, "head_branch"),
                      IF conclusion = None THEN Field(p, "status") ELSE conclusion[1],
                      Field(p, "html_url")>>
          [] e.payload.variant = "Release" ->
                LET emoji == IF Field(p, "draft") THEN "memo"
                             ELSE IF Field(p, "prerelease") THEN "test" ELSE "label"
                    name == OptField(p, "name")
                IN  <<"Release", emoji, Field(p, "tag_name"),
                      IF name = None THEN Field(p, "tag_name") ELSE name[1],
                      Field(p, "html_url"), e.sender.login, e.sender.html_url>>
          [] OTHER ->
                <<"Unknown", "satellite", e.event_type, e.repo.full_name,
                  e.sender.login, e.sender.html_url>>

-----------------------------------------------------------------------------
(* Inputs: webhook documents, request bodies, headers, routing rules *)

Url(name) == <<"https://github.com/">> \o name

RepoM(name) ==
    <<"repository", JObj(<< <<"full_name", JStr(name)>>, <<"html_url", JStr(Url(name))>> >>)>>
Acme == RepoM(<<"acme", "/", "widgets">>)
SenderM ==
    <<"sender", JObj(<< <<"login", JStr(<<"alice">>)>>, <<"html_url", JStr(Url(<<"alice">>))>> >>)>>
ActionM(a) == <<"action", JStr(<<a>>)>>

PrCore == << <<"number", JNum(42)>>, <<"title", JStr(<<"Fix bug">>)>>,
             <<"html_url", JStr(<<"pr-url">>)>>, <<"state", JStr(<<"open">>)>> >>
BaseM == <<"base", JObj(<< <<"ref", JStr(<<"main">>)>> >>)>>
PrM(rest) == <<"pull_request", JObj(PrCore \o rest)>>

IssueM(number) ==
    <<"issue", JObj(<< <<"number", number>>, <<"title", JStr(<<"Crash">>)>>,
                       <<"html_url", JStr(<<"issue-url">>)>>, <<"state", JStr(<<"open">>)>> >>)>>

CommitV(rest) ==
    JObj(<< <<"id", JStr(<<"abc">>)>>, <<"message", JStr(<<"msg">>)>>,
            <<"url", JStr(<<"commit-url">>)>> >> \o rest)
AuthorM == <<"author", JObj(<< <<"name", JStr(<<"alice">>)>> >>)>>
PushMs(commits) ==
    << <<"ref", JStr(<<"refs/heads/", "main">>)>>, <<"compare", JStr(<<"compare-url">>)>>,
       <<"commits", JArr(commits)>> >>

WorkflowM(rest) ==
    <<"workflow_run", JObj(<< <<"id", JNum(7)>>, <<"name", JStr(<<"CI">>)>>,
                              <<"status", JStr(<<"completed">>)>>,
                              <<"html_url", JStr(<<"run-url">>)>> >> \o rest)>>
BranchM == <<"head_branch", JStr(<<"main">>)>>

ReleaseM(draft) ==
    <<"release", JObj(<< <<"tag_name", JStr(<<"v1">>)>>, <<"html_url", JStr(<<"release-url">>)>>,
                         <<"draft", draft>>, <<"prerelease", JBool(TRUE)>> >>)>>

\* the JSON documents drawn
Docs == <<
    \* pull_request: well-formed (merged null / true / missing)
    JObj(<<ActionM("opened"), Acme, SenderM, PrM(<< <<"merged", JNull>>, BaseM >>)>>),
    JObj(<<ActionM("closed"), Acme, SenderM, PrM(<< <<"merged", JBool(TRUE)>>, BaseM >>)>>),
    JObj(<<ActionM("opened"), Acme, SenderM, PrM(<< BaseM >>)>>),
    \* pull_request: base missing, object null, negative number
    JObj(<<ActionM("opened"), Acme, SenderM, PrM(<< >>)>>),
    JObj(<<ActionM("opened"), Acme, SenderM, <<"pull_request", JNull>> >>),
    JObj(<<ActionM("opened"), Acme, SenderM, PrM(<< <<"number", JNum(-1)>>, BaseM >>)>>),
    \* issues: well-formed, number given as a string
    JObj(<<ActionM("opened"), Acme, SenderM, IssueM(JNum(5))>>),
    JObj(<<ActionM("opened"), Acme, SenderM, IssueM(JStr(<<"5">>))>>),
    \* push: well-formed, a commit without author, no commits
    JObj(<<Acme, SenderM>> \o PushMs(<<CommitV(<<AuthorM>>)>>)),
    JObj(<<Acme, SenderM>> \o PushMs(<<CommitV(<<AuthorM>>), CommitV(<< >>)>>)),
    JObj(<<Acme, SenderM>> \o PushMs(<< >>)),
    \* workflow_run: well-formed (conclusion given / null), head_branch missing
    JObj(<<ActionM("completed"), Acme, SenderM,
           WorkflowM(<< <<"conclusion", JStr(<<"success">>)>>, BranchM >>)>>),
    JObj(<<ActionM("requested"), Acme, SenderM, WorkflowM(<< <<"conclusion", JNull>>, BranchM >>)>>),
    JObj(<<ActionM("completed"), Acme, SenderM, WorkflowM(<< >>)>>),
    \* release: well-formed (name missing), draft given as a string
    JObj(<<ActionM("published"), Acme, SenderM, ReleaseM(JBool(FALSE))>>),
    JObj(<<ActionM("published"), Acme, SenderM, ReleaseM(JStr(<<"no">>))>>),
    \* no kind-specific object at all
    JObj(<<ActionM("opened"), Acme, SenderM>>),
    \* action that is not a string
    JObj(<< <<"action", JNum(1)>>, Acme, SenderM, PrM(<< BaseM >>)>>),
    \* repository missing, repository without html_url, another repository
    JObj(<<ActionM("opened"), SenderM, PrM(<< BaseM >>)>>),
    JObj(<<ActionM("opened"),
           <<"repository", JObj(<< <<"full_name", JStr(<<"acme", "/", "widgets">>)>> >>)>>,
           SenderM, PrM(<< BaseM >>)>>),
    JObj(<<ActionM("opened"), RepoM(<<"other", "/", "thing">>), SenderM, IssueM(JNum(5))>>),
    \* sender missing
    JObj(<<ActionM("opened"), Acme, IssueM(JNum(5))>>),
    \* documents that are not objects, and the empty object
    JNum(7),
    JArr(<< >>),
    JObj(<< >>)
>>

\* what the decoders make of each request body (see parse_request_body)
BodyViews ==
    [i \in 1..Len(Docs) |-> [json |-> Some(Docs[i]), form |-> << >>]]
    \o <<
    \* payload=<document>
    [json |-> None, form |-> << <<"payload", Some(Docs[1])>> >>],
    [json |-> None, form |-> << <<"x", None>>, <<"payload", Some(Docs[7])>> >>],
    [json |-> None, form |-> << <<"payload", Some(JNum(7))>> >>],
    \* payload=<not a document>
    [json |-> None, form |-> << <<"payload", None>> >>],
    \* no payload field (another field holds a document; the key's case differs)
    [json |-> None, form |-> << <<"x", Some(Docs[1])>> >>],
    [json |-> None, form |-> << <<"Payload", Some(Docs[1])>> >>],
    \* the empty body
    [json |-> None, form |-> << >>],
    \* payload given twice
    [json |-> None, form |-> << <<"payload", Some(Docs[1])>>, <<"payload", None>> >>],
    [json |-> None, form |-> << <<"payload", None>>, <<"payload", Some(Docs[1])>> >>]
    >>

Bodies == 1..Len(BodyViews)

\* a header value: to_str() is Ok(text) iff every byte is visible ASCII
Header(text) == [visible |-> TRUE, text |-> text]
Opaque(text) == [visible |-> FALSE, text |-> text]

\* x-github-event headers drawn (None: no such header)
KindHeaders ==
    {None, Some(Opaque(<<"push">>))}
    \cup {Some(Header(k)) : k \in {<<"pull_request">>, <<"issues">>, <<"push">>,
                                   <<"workflow_run">>, <<"release">>, <<"discussion">>,
                                   <<"issues", ".", "opened">>}}

\* x-hub-signature-256 headers drawn for a body
SigHeaders(secret, body) ==
    LET lower == HexEncode(Hmac(secret, body), LowerDigits)
        upper == HexEncode(Hmac(secret, body), UpperDigits)
        other == HexEncode(Hmac(secret, body + 1), LowerDigits)
    IN  {None, Some(Opaque(<<"sha256=">> \o lower))}
        \cup {Some(Header(t)) : t \in {<<"sha256=">> \o lower, <<"sha256=">> \o upper,
                                       lower, <<"sha1=">> \o lower,
                                       <<"sha256=">> \o other,
                                       <<"sha256=">> \o SubSeq(lower, 1, Len(lower) - 1),
                                       <<"sha256=", "g", "g">>, <<"sha256=">>}}

\* RouteConfig values drawn
Rules == {
    [repo_pattern |-> <<"*">>, chat_id |-> 1, events |-> << <<"*">> >>],
    [repo_pattern |-> <<"acme", "/", "*">>, chat_id |-> 2,
     events |-> << <<"pull_request">>, <<"issues", ".", "opened">> >>],
    [repo_pattern |-> <<"other", "/", "thing">>, chat_id |-> 3, events |-> << <<"issues">> >>]
}

\* Settings values drawn (server and telegram settings play no part)
SettingsSet ==
    {[webhook_secret |-> 1, routing |-> r] : r \in SeqsUpTo(Rules, MaxRoutes)}

-----------------------------------------------------------------------------
(* webhook::handle_webhook and TelegramClient::send_event_notification *)

NoProbe == [fn |-> "none"]
NoCalls == [parse |-> 0, format |-> 0]

Idle ==
    /\ pc = "idle"
    /\ request = None
    /\ response = None
    /\ event = None
    /\ message = None
    /\ idx = 0
    /\ attempts = << >>
    /\ calls = NoCalls
    /\ log = << >>

Init ==
    /\ settings \in SettingsSet
    /\ Idle
    /\ probe = NoProbe

\* headers.get(name).and_then(|v| v.to_str().ok())
HeaderStr(h) == IF h # None /\ h[1].visible THEN Some(h[1].text) ELSE None

\* faulty variant: whatever precedes the digest is dropped without a look
strip_prefix_any(text, prefix) ==
    IF Len(text) > 0 THEN Some(Tail(text)) ELSE None

\* str::strip_prefix
strip_prefix(text, prefix) ==
    IF Len(text) > 0 /\ text[1] = prefix THEN Some(Tail(text)) ELSE None

\* lines 21-24: the claimed signature, if the header carries one
ClaimedSignature(req) ==
    LET text == HeaderStr(req.sig)
    IN  IF text = None THEN None ELSE strip_prefix(text[1], "sha256=")

\* lines 36-39: the event type, "unknown" without a readable header
EventType(req) ==
    LET text == HeaderStr(req.kind)
    IN  IF text = None THEN <<"unknown">> ELSE text[1]

\* the framework hands handle_webhook one request
Receive ==
    /\ pc = "idle"
    /\ \E body \in Bodies, kind \in KindHeaders :
         \E sig \in SigHeaders(settings.webhook_secret, body) :
            request' = Some([sig |-> sig, kind |-> kind, body |-> body])
    /\ pc' = "auth"
    /\ UNCHANGED <<settings, response, event, message, idx, attempts, calls, log, probe>>

\* lines 21-29: no usable signature header
RejectNoSignature ==
    /\ pc = "auth"
    /\ ClaimedSignature(request[1]) = None
    /\ log' = Append(log, "warn: Missing or invalid signature header")
    /\ response' = Some(401)
    /\ pc' = "done"
    /\ UNCHANGED <<settings, request, event, message, idx, attempts, calls, probe>>

\* lines 31-34: the signature does not verify
RejectBadSignature ==
    /\ pc = "auth"
    /\ ClaimedSignature(request[1]) # None
    /\ ~verify_signature(settings.webhook_secret, request[1].body,
                         ClaimedSignature(request[1])[1])
    /\ log' = Append(log, "warn: Invalid webhook signature")
    /\ response' = Some(401)
    /\ pc' = "done"
    /\ UNCHANGED <<settings, request, event, message, idx, attempts, calls, probe>>

\* lines 31-41: the signature verifies
Authenticated ==
    /\ pc = "auth"
    /\ ClaimedSignature(request[1]) # None
    /\ verify_signature(settings.webhook_secret, request[1].body,
                        ClaimedSignature(request[1])[1])
    /\ log' = Append(log, "info: Received webhook")
    /\ pc' = "parse"
    /\ UNCHANGED <<settings, request, response, event, message, idx, attempts, calls, probe>>

\* lines 43-49, Err arm
RejectUnparsable ==
    /\ pc = "parse"
    /\ parse(EventType(request[1]), BodyViews[request[1].body]) = None
    /\ calls' = [calls EXCEPT !.parse = @ + 1]
    /\ log' = Append(log, "error: Failed to parse event")
    /\ response' = Some(400)
    /\ pc' = "done"
    /\ UNCHANGED <<settings, request, event, message, idx, attempts, probe>>

\* lines 43-49, Ok arm
Normalize ==
    /\ pc = "parse"
    /\ parse(EventType(request[1]), BodyViews[request[1].body]) # None
    /\ calls' = [calls EXCEPT !.parse = @ + 1]
    /\ event' = parse(EventType(request[1]), BodyViews[request[1].body])
    /\ pc' = "notify"
    /\ UNCHANGED <<settings, request, response, message, idx, attempts, log, probe>>

\* telegram lines 51-52: the key and the message are computed once
StartNotification ==
    /\ pc = "notify"
    /\ message' = Some(format_message(event[1]))
    /\ calls' = [calls EXCEPT !.format = @ + 1]
    /\ idx' = 1
    /\ pc' = "route"
    /\ UNCHANGED <<settings, request, response, event, attempts, log, probe>>

\* telegram lines 55-61: the two `continue` tests
Eligible(route, e) ==
    /\ matches_repo(route.repo_pattern, e.repo.full_name)
    /\ matches_event(route.events, event_key(e.event_type, e.action), e.event_type)

\* faulty variant: the loop ends at the first delivery (first match wins)
AfterAttemptFirstMatch(i, ok, n) == n + 1

\* faulty variant: a failed delivery is propagated with `?` and ends the loop
AfterAttemptAbortOnFailure(i, ok, n) == IF ok THEN i + 1 ELSE n + 1

\* telegram lines 70-73: the outcome is logged and the loop goes on
AfterAttempt(i, ok, n) == i + 1

\* telegram lines 54-61: one iteration that hits a `continue`
SkipRoute ==
    /\ pc = "route"
    /\ idx <= Len(settings.routing)
    /\ ~Eligible(settings.routing[idx], event[1])
    /\ idx' = idx + 1
    /\ UNCHANGED <<settings, pc, request, response, event, message, attempts, calls, log, probe>>

\* telegram lines 54-73: one iteration that calls send_message, which
\* answers Ok or Err (transport error, non-success status)
Deliver ==
    /\ pc = "route"
    /\ idx <= Len(settings.routing)
    /\ Eligible(settings.routing[idx], event[1])
    /\ \E ok \in BOOLEAN :
         /\ attempts' = Append(attempts, [chat_id |-> settings.routing[idx].chat_id,
                                          text |-> message[1], ok |-> ok])
         /\ log' = log \o <<"info: Routing event",
                            IF ok THEN "info: Message sent to Telegram"
                                  ELSE "warn: Failed to send message">>
         /\ idx' = AfterAttempt(idx, ok, Len(settings.routing))
    /\ UNCHANGED <<settings, pc, request, response, event, message, calls, probe>>

\* faulty variant: the pass fails when every delivery failed
send_event_notification_result_all_failed(sent) ==
    IF sent # << >> /\ \A i \in 1..Len(sent) : ~sent[i].ok THEN "Err" ELSE "Ok"

\* faulty variant: the pass fails when some delivery failed
send_event_notification_result_any_failed(sent) ==
    IF \E i \in 1..Len(sent) : ~sent[i].ok THEN "Err" ELSE "Ok"

\* telegram line 75: the value send_event_notification returns
send_event_notification_result(sent) == "Ok"

\* webhook lines 51-56
Acknowledge ==
    /\ pc = "route"
    /\ idx > Len(settings.routing)
    /\ IF send_event_notification_result(attempts) = "Err"
         THEN /\ log' = Append(log, "error: Failed to send notification")
              /\ response' = Some(500)
         ELSE /\ log' = log
              /\ response' = Some(200)
    /\ pc' = "done"
    /\ UNCHANGED <<settings, request, event, message, idx, attempts, calls, probe>>

\* the request is over; the handler's locals are dropped
Finish ==
    /\ pc = "done"
    /\ pc' = "idle"
    /\ request' = None
    /\ response' = None
    /\ event' = None
    /\ message' = None
    /\ idx' = 0
    /\ attempts' = << >>
    /\ calls' = NoCalls
    /\ log' = << >>
    /\ UNCHANGED <<settings, probe>>

Next ==
    \/ Receive
    \/ RejectNoSignature
    \/ RejectBadSignature
    \/ Authenticated
    \/ RejectUnparsable
    \/ Normalize
    \/ StartNotification
    \/ SkipRoute
    \/ Deliver
    \/ Acknowledge
    \/ Finish

Spec == Init /\ [][Next]_vars

-----------------------------------------------------------------------------
(* The pure functions on their own: Init draws the arguments, the one      *)
(* action applies the function.  The handler stays idle.                   *)

mainVars == <<settings, pc, request, response, event, message, idx, attempts, calls, log>>

IdleSettings == [webhook_secret |-> 1, routing |-> << >>]

\* --- matches_repo
RepoAtoms == {"acme", "/", "*"}
Patterns == SeqsUpTo(RepoAtoms, MaxPatLen)
RepoNames == SeqsUpTo(RepoAtoms, MaxPatLen + 1)

InitRepo ==
    /\ settings = IdleSettings
    /\ Idle
    /\ probe \in {[fn |-> "matches_repo", pattern |-> p, repo_name |-> r, result |-> None] :
                    p \in Patterns, r \in RepoNames}

ApplyMatchesRepo ==
    /\ probe.fn = "matches_repo"
    /\ probe.result = None
    /\ probe' = [probe EXCEPT !.result = Some(matches_repo(probe.pattern, probe.repo_name))]
    /\ UNCHANGED mainVars

SpecRepo == InitRepo /\ [][ApplyMatchesRepo]_vars

\* --- matches_event over event_key
KindStrings == SeqsUpTo({"pr", "."}, MaxKindLen) \ {<< >>}
ActionStrings == SeqsUpTo({"op", "."}, MaxKindLen)
Tags == {<<"*">>} \cup (SeqsUpTo({"pr", "op", "."}, MaxKindLen + 1) \ {<< >>})
Fillers == {<<"*">>, <<"pr">>, <<"op", ".", "pr">>}
Subscriptions ==
    {<< >>} \cup {<<t>> : t \in Tags}
            \cup {<<t, f>> : t \in Tags, f \in Fillers}
            \cup {<<f, t>> : t \in Tags, f \in Fillers}

InitKind ==
    /\ settings = IdleSettings
    /\ Idle
    /\ probe \in {[fn |-> "matches_event", subscribed |-> s, event_type |-> k, action |-> a,
                   result |-> None] :
                    s \in Subscriptions, k \in KindStrings,
                    a \in {None} \cup {Some(x) : x \in ActionStrings}}

ApplyMatchesEvent ==
    /\ probe.fn = "matches_event"
    /\ probe.result = None
    /\ probe' = [probe EXCEPT !.result =
                    Some(matches_event(probe.subscribed,
                                       event_key(probe.event_type, probe.action),
                                       probe.event_type))]
    /\ UNCHANGED mainVars

SpecKind == InitKind /\ [][ApplyMatchesEvent]_vars

\* --- verify_signature
SigChars == {"0", "a", "A", "g"}
Signatures == SeqsUpTo(SigChars, 2 * DigestLen + 1)

InitSig ==
    /\ settings = IdleSettings
    /\ Idle
    /\ probe \in {[fn |-> "verify_signature", secret |-> k, body |-> b, signature |-> g,
                   result |-> None] :
                    k \in {1, 2}, b \in {1, 2, 3}, g \in Signatures}

ApplyVerifySignature ==
    /\ probe.fn = "verify_signature"
    /\ probe.result = None
    /\ probe' = [probe EXCEPT !.result =
                    Some(verify_signature(probe.secret, probe.body, probe.signature))]
    /\ UNCHANGED mainVars

SpecSig == InitSig /\ [][ApplyVerifySignature]_vars

-----------------------------------------------------------------------------
(* Vocabulary of the properties *)

\* the request in hand carries a `sha256=` signature that verifies
Verified ==
    /\ request # None
    /\ LET h == request[1].sig
       IN  /\ h # None
           /\ h[1].visible
           /\ Len(h[1].text) > 0
           /\ h[1].text[1] = "sha256="
           /\ verify_signature(settings.webhook_secret, request[1].body, Tail(h[1].text))

\* the header is absent, or lacks the `sha256=` prefix, or does not verify
Unauthenticated ==
    /\ request # None
    /\ LET h == request[1].sig
       IN  \/ h = None
           \/ h[1].visible /\ (Len(h[1].text) = 0 \/ h[1].text[1] # "sha256=")
           \/ /\ h[1].visible
              /\ Len(h[1].text) > 0
              /\ h[1].text[1] = "sha256="
              /\ ~verify_signature(settings.webhook_secret, request[1].body, Tail(h[1].text))

\* the form's payload field (its last occurrence when the key is repeated)
\* holds a JSON document
HasPayloadDocument(pairs) ==
    \E i \in 1..Len(pairs) :
        /\ pairs[i][1] = "payload"
        /\ pairs[i][2] # None
        /\ \A j \in (i + 1)..Len(pairs) : pairs[j][1] # "payload"

\* the body is a JSON document, or a form whose payload field holds one
Interpretable(view) == view.json # None \/ HasPayloadDocument(view.form)

\* the document a body is interpreted as
DocumentOf(view) ==
    IF view.json # None THEN view.json[1]
    ELSE LET i == CHOOSE i \in 1..Len(view.form) :
                    /\ view.form[i][1] = "payload"
                    /\ \A j \in (i + 1)..Len(view.form) : view.form[j][1] # "payload"
         IN  view.form[i][2][1]

\* the rules of the table among the first n that pass both matches
RECURSIVE EligibleRules(_, _, _)
EligibleRules(routes, e, n) ==
    IF n = 0 THEN << >>
    ELSE LET before == EligibleRules(routes, e, n - 1)
         IN  IF Eligible(routes[n], e) THEN Append(before, n) ELSE before

Min(a, b) == IF a < b THEN a ELSE b

\* the number of lines of the log that read `line`
Count(lines, line) == Cardinality({i \in 1..Len(lines) : lines[i] = line})

Routed == pc \in {"route", "done"} /\ event # None

-----------------------------------------------------------------------------
(* Properties of handle_webhook and send_event_notification (Spec) *)

\* C1: a request whose signature header is absent, lacks the `sha256=`
\* prefix or does not verify is answered 401, and GitHubEvent::parse,
\* format_message and send_message are never called for it.
C1_AuthenticationGates ==
    Unauthenticated =>
        /\ pc \in {"auth", "done"}
        /\ pc = "done" => response = Some(401)
        /\ calls.parse = 0
        /\ calls.format = 0
        /\ attempts = << >>
        /\ event = None
        /\ message = None

\* a request with a `sha1=` header has been answered
C1_Witness ==
    /\ pc = "done"
    /\ response = Some(401)
    /\ request[1].sig # None
    /\ request[1].sig[1].visible
    /\ request[1].sig[1].text[1] = "sha1="

\* C2: when the routing pass is over, every rule that passes both matches
\* has had its delivery attempt, whatever the outcome of the attempts for
\* the eligible rules before it.
C2_FailureIsolated ==
    (pc = "done" /\ event # None) =>
        LET eligible == EligibleRules(settings.routing, event[1], Len(settings.routing))
        IN  \A k \in 1..Len(eligible) :
                /\ k <= Len(attempts)
                /\ attempts[k].chat_id = settings.routing[eligible[k]].chat_id

\* a failed delivery was followed by another attempt
C2_Witness ==
    /\ pc = "done"
    /\ Len(attempts) = 2
    /\ ~attempts[1].ok
    /\ attempts[2].ok

\* C3 as stated: when every delivery attempt of a verified, normalized
\* request fails, the caller is not given the success acknowledgement.
C3_AllFailedReported ==
    (/\ pc = "done"
     /\ event # None
     /\ attempts # << >>
     /\ \A i \in 1..Len(attempts) : ~attempts[i].ok)
        => response # Some(200)

\* C3 as amended: when every delivery attempt of a verified, normalized
\* request fails, the caller is still acknowledged with 200; each failure
\* is logged as a warning and nothing is logged as an error.
C3_AllFailedAcknowledged ==
    (/\ pc = "done"
     /\ event # None
     /\ attempts # << >>
     /\ \A i \in 1..Len(attempts) : ~attempts[i].ok)
        => /\ response = Some(200)
           /\ Count(log, "warn: Failed to send message") = Len(attempts)
           /\ Count(log, "error: Failed to send notification") = 0

\* every delivery of an answered request failed
C3_Witness ==
    /\ pc = "done"
    /\ event # None
    /\ Len(attempts) = 2
    /\ \A i \in 1..Len(attempts) : ~attempts[i].ok

\* C4: once the signature verified and the body was normalized, the
\* routing pass returns Ok for every combination of delivery outcomes and
\* the request is answered 200, never with a failure status.
C4_NeverHardFailure ==
    event # None =>
        /\ response \in {None, Some(200)}
        /\ pc = "done" => response = Some(200)
        /\ pc = "route" => send_event_notification_result(attempts) = "Ok"

\* a normalized request was answered although no rule of a non-empty table
\* matched it
C4_Witness ==
    /\ pc = "done"
    /\ event # None
    /\ response = Some(200)
    /\ settings.routing # << >>
    /\ attempts = << >>

\* C5: at every point of the routing pass the destinations attempted so far
\* are exactly those of the rules already visited that pass both matches,
\* in rule order and one attempt per rule; each attempt carries the
\* formatted message.
C5_FanOutInOrder ==
    Routed =>
        LET visited == Min(idx - 1, Len(settings.routing))
            eligible == EligibleRules(settings.routing, event[1], visited)
        IN  /\ Len(attempts) = Len(eligible)
            /\ \A k \in 1..Len(eligible) :
                 /\ attempts[k].chat_id = settings.routing[eligible[k]].chat_id
                 /\ attempts[k].text = message[1]
            /\ pc = "done" => visited = Len(settings.routing)

\* of two rules the second matched and the first did not
C5_Witness ==
    /\ pc = "done"
    /\ event # None
    /\ Len(settings.routing) = 2
    /\ ~Eligible(settings.routing[1], event[1])
    /\ Len(attempts) = 1
    /\ attempts[1].chat_id = settings.routing[2].chat_id

\* C6: a verified request is answered 400 exactly when its body is neither
\* a JSON document nor a form whose payload field holds one, and then
\* nothing is formatted or delivered.
C6_MalformedBodyRejected ==
    /\ response = Some(400) <=>
            (pc = "done" /\ Verified /\ ~Interpretable(BodyViews[request[1].body]))
    /\ response = Some(400) => (event = None /\ message = None /\ attempts = << >>)

\* a form body whose payload field is given twice, the last one no
\* document, was rejected
C6_Witness ==
    /\ pc = "done"
    /\ response = Some(400)
    /\ Len(BodyViews[request[1].body].form) = 2
    /\ BodyViews[request[1].body].form[1] = <<"payload", Some(Docs[1])>>

\* the object parse_payload reads for each recognized kind
KindTable ==
    << <<<<"pull_request">>, Some("pull_request"), "PullRequestPayload", "PullRequest">>,
       <<<<"issues">>, Some("issue"), "IssuePayload", "Issue">>,
       <<<<"push">>, None, "PushPayload", "Push">>,
       <<<<"workflow_run">>, Some("workflow_run"), "WorkflowRunPayload", "WorkflowRun">>,
       <<<<"release">>, Some("release"), "ReleasePayload", "Release">> >>

\* the kind is recognized and its object is present with the expected shape
KindObjectFits(kind, doc) ==
    \E r \in 1..Len(KindTable) :
        /\ KindTable[r][1] = kind
        /\ LET obj == IF KindTable[r][2] = None THEN Some(doc)
                      ELSE Get(doc, KindTable[r][2][1])
           IN  obj # None /\ Deserializes(obj[1], KindTable[r][3])

\* C7: a verified request whose body is interpretable is never rejected:
\* once parsed it has an event, whose detail is Unknown exactly when the
\* kind is not one of the five or its object is missing or misshapen, and
\* the request ends with 200 after one attempt per eligible rule.
C7_GracefulDegradation ==
    (Verified /\ Interpretable(BodyViews[request[1].body]) /\ pc \in {"notify", "route", "done"}) =>
        /\ event # None
        /\ (event[1].payload.variant = "Unknown") <=>
                ~KindObjectFits(event[1].event_type, DocumentOf(BodyViews[request[1].body]))
        /\ pc = "done" =>
                /\ response = Some(200)
                /\ Len(attempts) = Len(EligibleRules(settings.routing, event[1],
                                                      Len(settings.routing)))

\* a pull_request event whose object did not fit was delivered as Unknown
C7_Witness ==
    /\ pc = "done"
    /\ response = Some(200)
    /\ event # None
    /\ event[1].event_type = <<"pull_request">>
    /\ event[1].payload.variant = "Unknown"
    /\ \E i \in 1..Len(attempts) : attempts[i].ok

-----------------------------------------------------------------------------
(* Properties of the pure functions *)

RepoApplied == probe.fn = "matches_repo" /\ probe.result # None

\* C8: `*` matches everything; a pattern ending in `*` matches iff the
\* pattern without its trailing `*`s is a prefix of the name; any other
\* pattern matches iff it equals the name.  (SpecRepo)
C8_RepoMatch ==
    RepoApplied =>
        LET p == probe.pattern
            r == probe.repo_name
        IN  probe.result[1] =
                IF p = <<"*">> THEN TRUE
                ELSE IF Len(p) > 0 /\ p[Len(p)] = "*"
                    THEN StartsWith(r, TrimEndMatches(p, "*"))
                    ELSE p = r

KindApplied == probe.fn = "matches_event" /\ probe.result # None

\* the tag split at its first `.`: <<K, A>>, None without a `.`
SplitTag(tag) ==
    IF ~Contains(tag, ".") THEN None
    ELSE LET d == CHOOSE i \in 1..Len(tag) :
                    tag[i] = "." /\ \A j \in 1..(i - 1) : tag[j] # "."
         IN  Some(<<SubSeq(tag, 1, d - 1), SubSeq(tag, d + 1, Len(tag))>>)

\* a set containing the bare kind, or `*`, matches
KindBareAndWildcard ==
    /\ (\E i \in 1..Len(probe.subscribed) : probe.subscribed[i] = probe.event_type)
            => probe.result[1]
    /\ (\E i \in 1..Len(probe.subscribed) : probe.subscribed[i] = <<"*">>)
            => probe.result[1]

\* the only entry is K.A and the event was matched
QualifiedMatch ==
    /\ Len(probe.subscribed) = 1
    /\ SplitTag(probe.subscribed[1]) # None
    /\ probe.result[1]

\* C9 as stated: a set containing the bare kind matches, a set containing
\* `*` matches, and a set whose only entry is K.A matches an event only if
\* its kind is K and its action is A.  (SpecKind)
C9_KindMatch ==
    KindApplied =>
        /\ KindBareAndWildcard
        /\ QualifiedMatch =>
                /\ probe.event_type = SplitTag(probe.subscribed[1])[1][1]
                /\ probe.action = Some(SplitTag(probe.subscribed[1])[1][2])

\* C9 as amended: the same, the last part for events whose kind contains
\* no `.`; an event whose kind contains a `.` is matched by the entry K.A
\* exactly when its bare kind or its kind.action key is that string.
C9_KindMatchDotFree ==
    KindApplied =>
        /\ KindBareAndWildcard
        /\ (QualifiedMatch /\ ~Contains(probe.event_type, ".")) =>
                /\ probe.event_type = SplitTag(probe.subscribed[1])[1][1]
                /\ probe.action = Some(SplitTag(probe.subscribed[1])[1][2])
        /\ (Len(probe.subscribed) = 1 /\ Contains(probe.event_type, ".")
            /\ probe.subscribed[1] # <<"*">>) =>
                (probe.result[1] <=>
                    \/ probe.subscribed[1] = probe.event_type
                    \/ /\ probe.action # None
                       /\ probe.subscribed[1] =
                              probe.event_type \o <<".">> \o probe.action[1])

\* the entry pr.op matched the event of kind pr and action op
C9_Witness ==
    /\ KindApplied
    /\ probe.subscribed = << <<"pr", ".", "op">> >>
    /\ probe.event_type = <<"pr">>
    /\ probe.action = Some(<<"op">>)
    /\ probe.result[1]

SigApplied == probe.fn = "verify_signature" /\ probe.result # None

\* s spells the bytes in hexadecimal, each digit in either case
IsHexOf(s, bytes) ==
    /\ Len(s) = 2 * Len(bytes)
    /\ \A i \in 1..Len(bytes) :
         /\ s[2 * i - 1] \in {LowerDigits[(bytes[i] \div 16) + 1], UpperDigits[(bytes[i] \div 16) + 1]}
         /\ s[2 * i] \in {LowerDigits[(bytes[i] % 16) + 1], UpperDigits[(bytes[i] % 16) + 1]}

\* C10 as stated: verify_signature answers true when the candidate is the
\* hexadecimal encoding of HMAC(secret, body) and false for every other
\* string.  (SpecSig)
C10_ExactString ==
    SigApplied =>
        (probe.result[1] <=>
            probe.signature = HexEncode(Hmac(probe.secret, probe.body), LowerDigits))

\* C10 as amended: verify_signature answers true exactly when the candidate
\* spells HMAC(secret, body) in hexadecimal, each digit in either case, and
\* false (never an error) for every other string, those that are not
\* hexadecimal included.  (SpecSig)
C10_ExactDigest ==
    SigApplied =>
        /\ probe.result[1] \in BOOLEAN
        /\ probe.result[1] <=> IsHexOf(probe.signature, Hmac(probe.secret, probe.body))

\* an upper-case spelling of the digest was accepted
C10_Witness ==
    /\ SigApplied
    /\ probe.signature = HexEncode(Hmac(probe.secret, probe.body), UpperDigits)
    /\ probe.signature # HexEncode(Hmac(probe.secret, probe.body), LowerDigits)
    /\ probe.result[1]

====
